---- MODULE Spec2Model ----
(***************************************************************************)
(* A model of exporter.py, the iDrive e2 Prometheus exporter: the module   *)
(* level start-up (configuration checks, client creation), main() (the     *)
(* preflight test_connection, the two HTTP servers, the initial pass and   *)
(* the endless sleep/collect loop), collect_all_metrics and                *)
(* collect_bucket_metrics (the paginated listing and its aggregates, the   *)
(* gauges and the health record), and HealthHandler.do_GET, which runs in  *)
(* its own thread and reads the health record with no lock while the main  *)
(* thread writes it.                                                       *)
(*                                                                         *)
(* Strings are sequences of one-character strings, so that str.split and   *)
(* str.strip are computed.  datetime.now() reads a logical clock that      *)
(* advances by one at the start of every pass; time.time() advances by one *)
(* with every page the store returns, so that a collection's duration is   *)
(* its number of pages.  Timestamps of objects are whole epoch seconds.    *)
(* A KeyboardInterrupt is not modelled.                                    *)
(***************************************************************************)
EXTENDS Integers, Sequences, FiniteSets, TLC

\* ------------------------------------------------------------- bounds
\* Passes the scheduler starts in one run.
MaxPasses == 2
\* Pages the store returns for one listing.
MaxPages == 2

\* --------------------------------------------------- program constants
\* time.sleep(60) in main's except clause.
FALLBACK_DELAY == 60
\* SCRAPE_INTERVAL, the default of the environment variable.
SCRAPE_INTERVAL == 300

\* ------------------------------------------------------------- inputs
\* Values of the BUCKETS environment variable: "", " ", ",", "a", "a,b",
\* "a, a" (one bucket named twice) and "a, " (a blank entry after a bucket).
BucketsEnvValues ==
    { <<>>, <<" ">>, <<",">>, <<"a">>, <<"a", ",", "b">>,
      <<"a", ",", " ", "a">>, <<"a", ",", " ">> }

\* Errors of the store other than NoSuchBucket, by their description str(e).
OtherErrors == { "AccessDenied" }

\* An object descriptor of a listing page.
Obj(size, modified) == [Size |-> size, LastModified |-> modified]

\* A page with no Contents key, and a page whose Contents is the sequence c.
NoContents == [KeyCount |-> 0]
Contents(c) == [KeyCount |-> Len(c), Contents |-> c]

\* The buckets list_buckets can report, and the answers it gives.
AvailableSets == { { <<"a">> }, { <<"a">>, <<"b">> } }

\* The listings the store serves in the specification of the whole program:
\* an empty bucket, and a bucket of one object.
MainListings == { <<>>, << Contents(<< Obj(2, 5) >>) >> }

\* The listings the store serves in the specification of the main thread:
\* those, a page with no Contents key, and two pages.
SchedulerListings ==
    MainListings
    \cup { << NoContents >>,
           << Contents(<< Obj(2, 5) >>), Contents(<< Obj(1, 7), Obj(3, 6) >>) >> }

\* The pages the store serves in the specification of the collector alone:
\* timestamps before, at and after the epoch, two objects modified at the
\* same second, up to two objects a page.
CollectorObjs == { Obj(0, -1), Obj(2, 0), Obj(1, 2), Obj(2, 3), Obj(4, 3) }
CollectorPages ==
    { NoContents, Contents(<<>>) }
    \cup { Contents(<<o>>) : o \in CollectorObjs }
    \cup { Contents(<<o1, o2>>) : o1 \in CollectorObjs, o2 \in CollectorObjs }

\* ------------------------------------------------------------ strings
RECURSIVE lstrip(_)
\* str.lstrip: the leading blanks removed.
lstrip(s) == IF s # <<>> /\ Head(s) = " " THEN lstrip(Tail(s)) ELSE s

RECURSIVE rstrip(_)
\* str.rstrip: the trailing blanks removed.
rstrip(s) ==
    IF s # <<>> /\ s[Len(s)] = " " THEN rstrip(SubSeq(s, 1, Len(s) - 1)) ELSE s

\* str.strip().
strip(s) == rstrip(lstrip(s))

RECURSIVE split(_, _)
\* str.split(sep): the pieces between the separators, empty pieces kept, so
\* that "".split(",") is [""] and ",".split(",") is ["", ""].
split(s, sep) ==
    IF \E i \in 1..Len(s) : s[i] = sep
    THEN LET i == CHOOSE k \in 1..Len(s) :
                      s[k] = sep /\ \A j \in 1..(k - 1) : s[j] # sep
         IN  <<SubSeq(s, 1, i - 1)>> \o split(SubSeq(s, i + 1, Len(s)), sep)
    ELSE <<s>>

\* -------------------------------------------------------------- dicts
\* A Python dict is a sequence of [key, value] items in insertion order.
DictKeys(d) == { d[i].key : i \in 1..Len(d) }

\* d.get(k, default).
DictGet(d, k, default) ==
    IF k \in DictKeys(d)
    THEN d[CHOOSE i \in 1..Len(d) : d[i].key = k].value
    ELSE default

\* d[k] = v: the value replaced in place, or a new item appended.
DictSet(d, k, v) ==
    IF k \in DictKeys(d)
    THEN [i \in 1..Len(d) |-> IF d[i].key = k THEN [key |-> k, value |-> v] ELSE d[i]]
    ELSE Append(d, [key |-> k, value |-> v])

\* A labelled gauge is a function from the labels set so far to values.
GaugeSet(g, label, v) ==
    [l \in DOMAIN g \cup {label} |-> IF l = label THEN v ELSE g[l]]

\* ---------------------------------------------------------- rendering
\* None and a present value, for the fields that start as None.
None == <<>>
Some(v) == <<v>>

\* datetime.fromtimestamp(t).strftime('%Y-%m-%d %H:%M:%S'): the rendering of
\* the whole second t, distinct from "N/A".
strftime(t) == <<"ts", t>>
NA == <<"N/A">>

\* round(total_size / (1024**3), 2), in hundredths of a GiB: the quotient
\* rounded to the nearest hundredth, a tie to the even one.
size_gb(total_size) ==
    LET gib == 1073741824
        q == (total_size * 100) \div gib
        r == (total_size * 100) % gib
    IN  IF 2 * r > gib \/ (2 * r = gib /\ q % 2 = 1) THEN q + 1 ELSE q

\* ----------------------------------------------------------- the state
VARIABLES
    BUCKETS,         \* os.getenv('BUCKETS', '').split(',')
    keysSet,         \* ACCESS_KEY and SECRET_KEY are both set
    pc,              \* where the main thread is
    exitCode,        \* the process's exit status, None while it runs
    inLoop,          \* main is inside the try of its while loop
    clock,           \* the logical time: the number of passes started
    sleepFor,        \* the argument of the time.sleep in progress, else 0
    metricsUp,       \* start_http_server(8000) has returned
    healthUp,        \* the health server's thread has been started
    preflight,       \* what test_connection returned, None before it ran
    listResult,      \* how s3.list_buckets() ended: "none", "ok", "error"
    warnings,        \* the buckets test_connection logged a warning for
    idx,             \* the position of collect_all_metrics in BUCKETS
    all_success,     \* collect_all_metrics' local
    acc,             \* collect_bucket_metrics' locals during the listing
    reply,           \* how the listing in progress or just over went
    seen,            \* the pages of the listing in progress or just over
    health_status,   \* the module's health record
    metrics,         \* the gauges
    h                \* the health server's thread: do_GET's locals

vars == << BUCKETS, keysSet, pc, exitCode, inLoop, clock, sleepFor, metricsUp,
           healthUp, preflight, listResult, warnings, idx, all_success, acc,
           reply, seen, health_status, metrics, h >>

config == << BUCKETS, keysSet >>
servers == << metricsUp, healthUp >>
conn == << preflight, listResult, warnings >>
pass == << idx, all_success, acc, reply, seen >>

\* collect_bucket_metrics' locals before the first page.
acc0 == [total_size |-> 0, total_objects |-> 0, latest_modified |-> 0,
         page_count |-> 0]

\* do_GET's locals when no request is being answered; response is the last
\* response sent, None before the first.
hIdle(response) ==
    [pc |-> "idle", all_buckets_healthy |-> FALSE, last_scrape |-> None,
     total |-> 0, healthy_n |-> 0, unhealthy_n |-> 0, it |-> 0, size0 |-> 0,
     body |-> <<>>, response |-> response]

\* The state when the interpreter starts to run the module.
Init ==
    /\ BUCKETS \in { split(e, ",") : e \in BucketsEnvValues }
    /\ keysSet \in BOOLEAN
    /\ pc = "validate"
    /\ exitCode = None
    /\ inLoop = FALSE
    /\ clock = 0
    /\ sleepFor = 0
    /\ metricsUp = FALSE
    /\ healthUp = FALSE
    /\ preflight = None
    /\ listResult = "none"
    /\ warnings = {}
    /\ idx = 0
    /\ all_success = TRUE
    /\ acc = acc0
    /\ reply = "none"
    /\ seen = <<>>
    /\ health_status = [healthy |-> TRUE, last_successful_scrape |-> None,
                        buckets |-> <<>>]
    /\ metrics = [bucket_size |-> <<>>, object_count |-> <<>>,
                  last_modified |-> <<>>, scrape_duration |-> <<>>,
                  scrape_success |-> <<>>, bucket_health |-> <<>>,
                  exporter_health |-> 0]
    /\ h = hIdle(None)

\* exit(1).
Exit1 == pc' = "exited" /\ exitCode' = Some(1)

\* ------------------------------------------------------------ start-up
\* The module's configuration checks.
ValidateConfig ==
    /\ pc = "validate"
    /\ IF ~keysSet
       THEN Exit1
       ELSE IF BUCKETS = <<>> \/ BUCKETS = << <<>> >>
            THEN Exit1
            ELSE pc' = "client" /\ UNCHANGED exitCode
    /\ UNCHANGED << config, inLoop, clock, sleepFor, servers, conn, pass,
                    health_status, metrics, h >>

\* boto3.client(...): created, or an exception and exit(1).
CreateClient(ok) ==
    /\ pc = "client"
    /\ IF ok THEN pc' = "preflight" /\ UNCHANGED exitCode ELSE Exit1
    /\ UNCHANGED << config, inLoop, clock, sleepFor, servers, conn, pass,
                    health_status, metrics, h >>

\* The configured buckets test_connection warns about.
MissingBuckets(available) ==
    { strip(BUCKETS[i]) : i \in 1..Len(BUCKETS) } \ (available \cup { <<>> })

\* A test_connection that returns False when a configured bucket is missing.
test_connection_strict(listOk, available) ==
    IF listOk
    THEN [result |-> MissingBuckets(available) = {},
          warnings |-> MissingBuckets(available)]
    ELSE [result |-> FALSE, warnings |-> {}]

\* test_connection(): listOk says whether s3.list_buckets() returned, available
\* is what it returned.  The result and the warnings logged.
test_connection(listOk, available) ==
    IF listOk
    THEN [result |-> TRUE, warnings |-> MissingBuckets(available)]
    ELSE [result |-> FALSE, warnings |-> {}]

\* main: the preflight, and exit(1) when it fails.
Preflight(listOk, available) ==
    /\ pc = "preflight"
    /\ LET t == test_connection(listOk, available)
       IN  /\ preflight' = Some(t.result)
           /\ warnings' = t.warnings
           /\ listResult' = IF listOk THEN "ok" ELSE "error"
           /\ IF t.result THEN pc' = "start_metrics" /\ UNCHANGED exitCode
                          ELSE Exit1
    /\ UNCHANGED << config, inLoop, clock, sleepFor, servers, pass,
                    health_status, metrics, h >>

\* main: start_http_server(8000), or exit(1).
StartMetricsServer(ok) ==
    /\ pc = "start_metrics"
    /\ IF ok
       THEN pc' = "start_health" /\ metricsUp' = TRUE /\ UNCHANGED exitCode
       ELSE Exit1 /\ UNCHANGED metricsUp
    /\ UNCHANGED << config, inLoop, clock, sleepFor, healthUp, conn, pass,
                    health_status, metrics, h >>

\* main: the health server and its daemon thread, or exit(1).
StartHealthServer(ok) ==
    /\ pc = "start_health"
    /\ IF ok
       THEN pc' = "initial" /\ healthUp' = TRUE /\ UNCHANGED exitCode
       ELSE Exit1 /\ UNCHANGED healthUp
    /\ UNCHANGED << config, inLoop, clock, sleepFor, metricsUp, conn, pass,
                    health_status, metrics, h >>

\* ------------------------------------------------- collect_bucket_metrics
RECURSIVE AddObjects(_, _)
\* The loop over page['Contents']: the size added, the object counted, the
\* latest modification kept when the object's is greater.
AddObjects(a, contents) ==
    IF contents = <<>>
    THEN a
    ELSE LET obj == Head(contents)
         IN  AddObjects(
                 [a EXCEPT !.total_size = @ + obj.Size,
                           !.total_objects = @ + 1,
                           !.latest_modified =
                               IF obj.LastModified > @ THEN obj.LastModified ELSE @],
                 Tail(contents))

\* A loop that sets the totals to zero at every page instead of before the
\* first.
AddPageTotalsPerPage(a, page) ==
    LET a1 == [acc0 EXCEPT !.page_count = a.page_count + 1]
    IN  IF "Contents" \in DOMAIN page THEN AddObjects(a1, page.Contents) ELSE a1

\* One turn of the loop over the paginator's pages.
AddPage(a, page) ==
    LET a1 == [a EXCEPT !.page_count = @ + 1]
    IN  IF "Contents" \in DOMAIN page THEN AddObjects(a1, page.Contents) ELSE a1

\* The entry written for a bucket whose listing completed.
SuccessEntry(a, now) ==
    [success |-> TRUE,
     objects |-> a.total_objects,
     size_bytes |-> a.total_size,
     size_gb |-> size_gb(a.total_size),
     last_modified |->
         IF a.latest_modified > 0 THEN strftime(a.latest_modified) ELSE NA,
     scrape_duration_seconds |-> a.page_count,
     last_check |-> now]

\* The error string with no except clause for NoSuchBucket: str(e) always.
error_message_generic(err) == err

\* The error string of the entry written for a failed listing: a fixed one
\* for NoSuchBucket, str(e) for anything else.
error_message(err) == IF err = "NoSuchBucket" THEN "Bucket not found" ELSE err

\* The entry written for a bucket whose listing raised.
FailureEntry(err, now) ==
    [success |-> FALSE, error |-> error_message(err), last_check |-> now]

\* health_status['buckets'][bucket_name].update(entry): the fields of the
\* new outcome written into the dict the readers hold, the others left.
RecordOutcomeInPlace(buckets, bucket_name, entry) ==
    IF bucket_name \in DictKeys(buckets)
    THEN LET old == DictGet(buckets, bucket_name, entry)
         IN  DictSet(buckets, bucket_name,
                     [f \in DOMAIN old \cup DOMAIN entry |->
                          IF f \in DOMAIN entry THEN entry[f] ELSE old[f]])
    ELSE DictSet(buckets, bucket_name, entry)

\* health_status['buckets'][bucket_name] = entry: one store of a new dict.
RecordOutcome(buckets, bucket_name, entry) == DictSet(buckets, bucket_name, entry)

\* The gauges a completed listing sets.
SuccessGauges(m, b, a) ==
    [m EXCEPT !.bucket_size = GaugeSet(@, b, a.total_size),
              !.object_count = GaugeSet(@, b, a.total_objects),
              !.last_modified =
                  IF a.latest_modified > 0 THEN GaugeSet(@, b, a.latest_modified)
                                           ELSE @,
              !.scrape_success = GaugeSet(@, b, 1),
              !.bucket_health = GaugeSet(@, b, 1),
              !.scrape_duration = GaugeSet(@, b, a.page_count)]

\* Except clauses that set the scrape-success gauge and leave the
\* bucket-health gauge as it was.
FailureGaugesSuccessOnly(m, b) ==
    [m EXCEPT !.scrape_success = GaugeSet(@, b, 0),
              !.bucket_health = IF b \in DOMAIN @ THEN @ ELSE GaugeSet(@, b, 1)]

\* Except clauses that also reset the bucket's size and object count.
FailureGaugesResetStats(m, b) ==
    [m EXCEPT !.scrape_success = GaugeSet(@, b, 0),
              !.bucket_health = GaugeSet(@, b, 0),
              !.bucket_size = GaugeSet(@, b, 0),
              !.object_count = GaugeSet(@, b, 0)]

\* The gauges a failed listing sets.
FailureGauges(m, b) ==
    [m EXCEPT !.scrape_success = GaugeSet(@, b, 0),
              !.bucket_health = GaugeSet(@, b, 0)]

\* collect_all_metrics after collect_bucket_metrics returned: all_success
\* becomes false when the bucket's entry is missing or not a success.
CheckBucket(allSuccess, buckets, bucket_name) ==
    IF bucket_name # <<>>
       /\ ~DictGet(buckets, bucket_name, [success |-> FALSE]).success
    THEN FALSE
    ELSE allSuccess

\* The start of collect_all_metrics.
BeginPass ==
    /\ clock < MaxPasses
    /\ clock' = clock + 1
    /\ idx' = 1
    /\ all_success' = TRUE
    /\ pc' = "for"
    /\ sleepFor' = 0
    /\ UNCHANGED << acc, reply, seen >>

\* main: the initial collection, outside the loop's try.
InitialPass ==
    /\ pc = "initial"
    /\ BeginPass
    /\ UNCHANGED << config, exitCode, inLoop, servers, conn, health_status,
                    metrics, h >>

\* A loop that leaves after its sleep, as on a KeyboardInterrupt.
SleepDoneBreaks ==
    /\ pc = "sleep"
    /\ pc' = "exited"
    /\ exitCode' = Some(0)
    /\ sleepFor' = 0
    /\ UNCHANGED << config, inLoop, clock, servers, conn, pass, health_status,
                    metrics, h >>

\* main: time.sleep(SCRAPE_INTERVAL) returns and the next pass starts.
SleepDone ==
    /\ pc = "sleep"
    /\ BeginPass
    /\ UNCHANGED << config, exitCode, inLoop, servers, conn, health_status,
                    metrics, h >>

\* A collector with no early return for a blank name: the listing of the
\* empty name is refused and a failure is recorded under it.
SkipBlankRecorded ==
    /\ pc = "for"
    /\ idx <= Len(BUCKETS)
    /\ strip(BUCKETS[idx]) = <<>>
    /\ \E err \in OtherErrors :
           health_status' =
               [health_status EXCEPT
                    !.buckets = RecordOutcome(@, <<>>, FailureEntry(err, clock))]
    /\ metrics' = FailureGauges(metrics, <<>>)
    /\ all_success' = FALSE
    /\ idx' = idx + 1
    /\ reply' = "none"
    /\ seen' = <<>>
    /\ UNCHANGED << config, pc, exitCode, inLoop, clock, sleepFor, servers,
                    conn, acc, h >>

\* collect_bucket_metrics on a name that is blank once stripped: it returns
\* at once, and collect_all_metrics goes on to the next name.
SkipBlank ==
    /\ pc = "for"
    /\ idx <= Len(BUCKETS)
    /\ strip(BUCKETS[idx]) = <<>>
    /\ all_success' = CheckBucket(all_success, health_status.buckets, strip(BUCKETS[idx]))
    /\ idx' = idx + 1
    /\ reply' = "none"
    /\ seen' = <<>>
    /\ UNCHANGED << config, pc, exitCode, inLoop, clock, sleepFor, servers,
                    conn, acc, health_status, metrics, h >>

\* collect_bucket_metrics on a non-blank name: the locals are set and the
\* paginator is made.
StartCollect ==
    /\ pc = "for"
    /\ idx <= Len(BUCKETS)
    /\ strip(BUCKETS[idx]) # <<>>
    /\ pc' = "listing"
    /\ acc' = acc0
    /\ reply' = "none"
    /\ seen' = <<>>
    /\ UNCHANGED << config, exitCode, inLoop, clock, sleepFor, servers, conn,
                    idx, all_success, health_status, metrics, h >>

\* The paginator yields a page and the loop body runs on it.
FetchPage(page) ==
    /\ pc = "listing"
    /\ acc.page_count < MaxPages
    /\ acc' = AddPage(acc, page)
    /\ seen' = Append(seen, page)
    /\ reply' = "page"
    /\ UNCHANGED << config, pc, exitCode, inLoop, clock, sleepFor, servers,
                    conn, idx, all_success, health_status, metrics, h >>

\* The paginator is exhausted: the gauges are set, the entry is written, and
\* collect_all_metrics looks at it and goes on to the next name.
CollectSucceeds ==
    /\ pc = "listing"
    /\ LET b == strip(BUCKETS[idx])
           buckets == RecordOutcome(health_status.buckets, b,
                                    SuccessEntry(acc, clock))
       IN  /\ metrics' = SuccessGauges(metrics, b, acc)
           /\ health_status' = [health_status EXCEPT !.buckets = buckets]
           /\ all_success' = CheckBucket(all_success, buckets, b)
    /\ reply' = "done"
    /\ acc' = acc0
    /\ idx' = idx + 1
    /\ pc' = "for"
    /\ UNCHANGED << config, exitCode, inLoop, clock, sleepFor, servers, conn,
                    seen, h >>

\* A collector whose generic except clause only logs: an error other than
\* NoSuchBucket leaves the entry and the gauges as they were.
CollectFailsUnrecorded(err) ==
    /\ pc = "listing"
    /\ LET b == strip(BUCKETS[idx])
           buckets == IF err = "NoSuchBucket"
                      THEN RecordOutcome(health_status.buckets, b,
                                         FailureEntry(err, clock))
                      ELSE health_status.buckets
       IN  /\ metrics' = IF err = "NoSuchBucket" THEN FailureGauges(metrics, b)
                                                 ELSE metrics
           /\ health_status' = [health_status EXCEPT !.buckets = buckets]
           /\ all_success' = CheckBucket(all_success, buckets, b)
    /\ reply' = err
    /\ acc' = acc0
    /\ idx' = idx + 1
    /\ pc' = "for"
    /\ UNCHANGED << config, exitCode, inLoop, clock, sleepFor, servers, conn,
                    seen, h >>

\* The paginator raises err, on its first page or a later one: the gauges
\* are set, the entry is written, and collect_all_metrics goes on.
CollectFails(err) ==
    /\ pc = "listing"
    /\ LET b == strip(BUCKETS[idx])
           buckets == RecordOutcome(health_status.buckets, b,
                                    FailureEntry(err, clock))
       IN  /\ metrics' = FailureGauges(metrics, b)
           /\ health_status' = [health_status EXCEPT !.buckets = buckets]
           /\ all_success' = CheckBucket(all_success, buckets, b)
    /\ reply' = err
    /\ acc' = acc0
    /\ idx' = idx + 1
    /\ pc' = "for"
    /\ UNCHANGED << config, exitCode, inLoop, clock, sleepFor, servers, conn,
                    seen, h >>

\* The end of collect_all_metrics, and main going to sleep in its loop.
FinishPass ==
    /\ pc = "for"
    /\ idx > Len(BUCKETS)
    /\ health_status' = [health_status EXCEPT
                             !.healthy = all_success,
                             !.last_successful_scrape = Some(clock)]
    /\ metrics' = [metrics EXCEPT
                       !.exporter_health = IF all_success THEN 1 ELSE 0]
    /\ pc' = "sleep"
    /\ inLoop' = TRUE
    /\ sleepFor' = SCRAPE_INTERVAL
    /\ reply' = "none"
    /\ seen' = <<>>
    /\ UNCHANGED << config, exitCode, clock, servers, conn, idx, all_success,
                    acc, h >>

\* Where an exception that escapes collect_all_metrics goes: to the except
\* clause of main's loop and its time.sleep(60), or, from the initial
\* collection, out of main.
Escapes ==
    IF inLoop
    THEN pc' = "fallback" /\ sleepFor' = FALLBACK_DELAY /\ UNCHANGED exitCode
    ELSE pc' = "crashed" /\ exitCode' = Some(1) /\ UNCHANGED sleepFor

\* An exception no except clause of the pass catches is raised during it.
UnexpectedError ==
    /\ pc \in {"for", "listing"}
    /\ Escapes
    /\ reply' = "none"
    /\ seen' = <<>>
    /\ acc' = acc0
    /\ UNCHANGED << config, inLoop, clock, servers, conn, idx, all_success,
                    health_status, metrics, h >>

\* main: time.sleep(60) returns and the loop starts over.
FallbackDone ==
    /\ pc = "fallback"
    /\ pc' = "sleep"
    /\ sleepFor' = SCRAPE_INTERVAL
    /\ UNCHANGED << config, exitCode, inLoop, clock, servers, conn, pass,
                    health_status, metrics, h >>

\* ------------------------------------------------- HealthHandler.do_GET
\* The health server's thread runs while the process does.
Serving == healthUp /\ exitCode = None

\* all(bucket.get('success', False) for bucket in ...values()) if the dict
\* is not empty, else False.
AllBucketsHealthy(buckets) ==
    /\ buckets # <<>>
    /\ \A i \in 1..Len(buckets) : buckets[i].value.success

\* sum(1 for b in ...values() if b.get('success', False)).
CountHealthy(buckets) ==
    Cardinality({ i \in 1..Len(buckets) : buckets[i].value.success })

\* sum(1 for b in ...values() if not b.get('success', False)).
CountUnhealthy(buckets) ==
    Cardinality({ i \in 1..Len(buckets) : ~buckets[i].value.success })

\* GET /health arrives and all_buckets_healthy is computed.  Each of the
\* handler's expressions over the health record is one step of its thread;
\* the main thread can run between any two of them.
HealthAll ==
    /\ Serving
    /\ h.pc = "idle"
    /\ h' = [hIdle(None) EXCEPT
                 !.pc = "last",
                 !.all_buckets_healthy = AllBucketsHealthy(health_status.buckets)]
    /\ UNCHANGED << config, pc, exitCode, inLoop, clock, sleepFor, servers,
                    conn, pass, health_status, metrics >>

\* 'last_scrape': health_status['last_successful_scrape'].
HealthLast ==
    /\ Serving
    /\ h.pc = "last"
    /\ h' = [h EXCEPT !.pc = "len",
                      !.last_scrape = health_status.last_successful_scrape]
    /\ UNCHANGED << config, pc, exitCode, inLoop, clock, sleepFor, servers,
                    conn, pass, health_status, metrics >>

\* 'total_buckets': len(health_status['buckets']).
HealthLen ==
    /\ Serving
    /\ h.pc = "len"
    /\ h' = [h EXCEPT !.pc = "healthy", !.total = Len(health_status.buckets)]
    /\ UNCHANGED << config, pc, exitCode, inLoop, clock, sleepFor, servers,
                    conn, pass, health_status, metrics >>

\* 'healthy_buckets'.
HealthHealthy ==
    /\ Serving
    /\ h.pc = "healthy"
    /\ h' = [h EXCEPT !.pc = "unhealthy",
                      !.healthy_n = CountHealthy(health_status.buckets)]
    /\ UNCHANGED << config, pc, exitCode, inLoop, clock, sleepFor, servers,
                    conn, pass, health_status, metrics >>

\* 'unhealthy_buckets'.
HealthUnhealthy ==
    /\ Serving
    /\ h.pc = "unhealthy"
    /\ h' = [h EXCEPT !.pc = "dump",
                      !.unhealthy_n = CountUnhealthy(health_status.buckets)]
    /\ UNCHANGED << config, pc, exitCode, inLoop, clock, sleepFor, servers,
                    conn, pass, health_status, metrics >>

\* status_code = 200 if all_buckets_healthy else 503.
StatusCode(allHealthy) == IF allHealthy THEN 200 ELSE 503

\* The response to GET /health: the status line sent, and the body when
\* json.dumps completed.
HealthResponse(l, complete) ==
    [path |-> "/health",
     code |-> StatusCode(l.all_buckets_healthy),
     complete |-> complete,
     status |-> IF l.all_buckets_healthy THEN "healthy" ELSE "unhealthy",
     last_scrape |-> l.last_scrape,
     buckets |-> l.body,
     total_buckets |-> l.total,
     healthy_buckets |-> l.healthy_n,
     unhealthy_buckets |-> l.unhealthy_n]

\* json.dumps(response, indent=2) walks health_status['buckets'] itself, one
\* item a step: the first step makes the iterator, every step raises
\* RuntimeError when the dict's size is no longer the one the iterator began
\* with (the status line is sent by then, the body is not), reads the next
\* item, or ends the walk and writes the body.
HealthDump ==
    /\ Serving
    /\ h.pc = "dump"
    /\ LET size0 == IF h.it = 0 THEN Len(health_status.buckets) ELSE h.size0
       IN  IF Len(health_status.buckets) # size0
           THEN h' = hIdle(Some(HealthResponse([h EXCEPT !.body = <<>>], FALSE)))
           ELSE IF h.it = size0
                THEN h' = hIdle(Some(HealthResponse(h, TRUE)))
                ELSE h' = [h EXCEPT
                               !.size0 = size0,
                               !.it = @ + 1,
                               !.body = Append(@, health_status.buckets[h.it + 1])]
    /\ UNCHANGED << config, pc, exitCode, inLoop, clock, sleepFor, servers,
                    conn, pass, health_status, metrics >>

\* GET / is answered with the fixed document, any other path with a 404.
HealthOther(path) ==
    /\ Serving
    /\ h.pc = "idle"
    /\ h' = hIdle(Some([path |-> path,
                        code |-> IF path = "/" THEN 200 ELSE 404,
                        complete |-> TRUE]))
    /\ UNCHANGED << config, pc, exitCode, inLoop, clock, sleepFor, servers,
                    conn, pass, health_status, metrics >>

\* ------------------------------------------------------ specifications
StoreErrors == {"NoSuchBucket"} \cup OtherErrors

\* The main thread: the module's start-up and main.  list_buckets answers
\* with one of availableSets, a listing is one of listings, or a beginning
\* of one and then one of errors.
Scheduler(availableSets, listings, errors) ==
    \/ ValidateConfig
    \/ \E ok \in BOOLEAN : CreateClient(ok)
    \/ \E listOk \in BOOLEAN, available \in availableSets :
           Preflight(listOk, available)
    \/ \E ok \in BOOLEAN : StartMetricsServer(ok)
    \/ \E ok \in BOOLEAN : StartHealthServer(ok)
    \/ InitialPass
    \/ SleepDone
    \/ SkipBlank
    \/ StartCollect
    \/ \E l \in listings :
           /\ Len(seen) < Len(l)
           /\ SubSeq(l, 1, Len(seen)) = seen
           /\ FetchPage(l[Len(seen) + 1])
    \/ CollectSucceeds
    \/ \E err \in errors : CollectFails(err)
    \/ FinishPass
    \/ UnexpectedError
    \/ FallbackDone

\* The health server's thread.
Handler ==
    \/ HealthAll
    \/ HealthLast
    \/ HealthLen
    \/ HealthHealthy
    \/ HealthUnhealthy
    \/ HealthDump
    \/ \E path \in {"/", "/favicon.ico"} : HealthOther(path)

\* The whole program: the main thread and the health server's thread.  The
\* account holds every configured bucket and a failing listing fails with
\* NoSuchBucket.
Next ==
    \/ Scheduler({ { <<"a">>, <<"b">> } }, MainListings, { "NoSuchBucket" })
    \/ Handler

Spec == Init /\ [][Next]_vars

\* The main thread alone, which no step of the health server's thread
\* changes anything of, with every answer of the store.
NextScheduler == Scheduler(AvailableSets, SchedulerListings, StoreErrors)

SpecScheduler == Init /\ [][NextScheduler]_vars

\* The main thread under fair scheduling: it is never stopped for ever
\* while it has a step to take, since time.sleep returns and every call of
\* the store returns or raises.
SpecRecurring == SpecScheduler /\ WF_vars(NextScheduler)

\* The collector alone: the exporter has started with BUCKETS=a and its
\* first pass begins; the store serves any pages of CollectorPages.
InitCollector ==
    /\ BUCKETS = << <<"a">> >>
    /\ keysSet = TRUE
    /\ pc = "for"
    /\ exitCode = None
    /\ inLoop = FALSE
    /\ clock = 1
    /\ sleepFor = 0
    /\ metricsUp = TRUE
    /\ healthUp = TRUE
    /\ preflight = Some(TRUE)
    /\ listResult = "ok"
    /\ warnings \in { {}, { <<"a">> } }
    /\ idx = 1
    /\ all_success = TRUE
    /\ acc = acc0
    /\ reply = "none"
    /\ seen = <<>>
    /\ health_status = [healthy |-> TRUE, last_successful_scrape |-> None,
                        buckets |-> <<>>]
    /\ metrics = [bucket_size |-> <<>>, object_count |-> <<>>,
                  last_modified |-> <<>>, scrape_duration |-> <<>>,
                  scrape_success |-> <<>>, bucket_health |-> <<>>,
                  exporter_health |-> 0]
    /\ h = hIdle(None)

NextCollector ==
    \/ StartCollect
    \/ \E page \in CollectorPages : FetchPage(page)
    \/ CollectSucceeds
    \/ \E err \in StoreErrors : CollectFails(err)

SpecCollector == InitCollector /\ [][NextCollector]_vars

\* ---------------------------------------------------- what is checked
\* The configured names that are not blank, stripped.
ConfiguredBuckets ==
    { strip(BUCKETS[i]) : i \in 1..Len(BUCKETS) } \ { <<>> }

\* The latest outcome recorded for bucket b is a success.
LatestIsSuccess(b) ==
    DictGet(health_status.buckets, b, [success |-> FALSE]).success

\* The pass that began last ran to its end and no other has begun.
PassDone == health_status.last_successful_scrape = Some(clock)

\* C1: at the end of every completed pass, overall health is true exactly
\* when the latest recorded outcome of every configured non-blank bucket is
\* a success.
C1_HealthyIffAllLatestSuccess ==
    PassDone =>
        (health_status.healthy <=> \A b \in ConfiguredBuckets : LatestIsSuccess(b))

\* C2: whenever GET /health decides its status code, the code is 200 only if
\* overall_healthy is true and 503 only if it is false.
C2_StatusCodeIsOverallHealthy ==
    [][ (h.pc = "idle" /\ h'.pc = "last")
            => (StatusCode(h'.all_buckets_healthy) = 200 <=> health_status.healthy)
      ]_vars

\* The complete response to GET /health that was sent last, if any.
HealthSent ==
    /\ h.response # None
    /\ h.response[1].path = "/health"
    /\ h.response[1].complete

\* C3: the status string, the status code, the summary counts and the
\* per-bucket map of one response to GET /health describe one state of the
\* health record.
C3_ResponseIsOneState ==
    HealthSent =>
        LET r == h.response[1]
            n == Len(r.buckets)
            ok == { i \in 1..n : r.buckets[i].value.success }
        IN  /\ r.status = "healthy" <=> (n > 0 /\ Cardinality(ok) = n)
            /\ r.code = 200 <=> r.status = "healthy"
            /\ r.code = 503 <=> r.status = "unhealthy"
            /\ r.total_buckets = n
            /\ r.healthy_buckets = Cardinality(ok)
            /\ r.unhealthy_buckets = n - Cardinality(ok)

RECURSIVE AddListing(_, _)
\* The locals after the pages of a listing, from the locals a.
AddListing(a, pages) ==
    IF pages = <<>> THEN a ELSE AddListing(AddPage(a, Head(pages)), Tail(pages))

\* The entries a collection can write: a success over a listing the store
\* serves, or a failure, at some time.
WholeOutcomes ==
    { SuccessEntry(AddListing(acc0, l), t) : l \in MainListings, t \in 1..MaxPasses }
    \cup { FailureEntry(err, t) : err \in StoreErrors, t \in 1..MaxPasses }

\* C4: every per-bucket entry a reader of GET /health has read, while it
\* walks the map and in the response it sent, is one whole outcome: never
\* the fields of two outcomes mixed.
C4_EntriesAreWhole ==
    /\ \A i \in 1..Len(h.body) : h.body[i].value \in WholeOutcomes
    /\ HealthSent =>
           \A i \in 1..Len(h.response[1].buckets) :
               h.response[1].buckets[i].value \in WholeOutcomes

\* A reader has read two entries during a pass, one written in this pass
\* and one in the pass before.
C4_Witness ==
    /\ pc \in {"for", "listing"}
    /\ h.pc = "dump"
    /\ Len(h.body) = 2
    /\ h.body[1].value.last_check = clock
    /\ h.body[2].value.last_check = clock - 1
    /\ h.body[1].value.success /\ ~h.body[2].value.success

RECURSIVE Flatten(_)
\* The object descriptors of a sequence of pages, in order.
Flatten(pages) ==
    IF pages = <<>>
    THEN <<>>
    ELSE (IF "Contents" \in DOMAIN Head(pages) THEN Head(pages).Contents ELSE <<>>)
         \o Flatten(Tail(pages))

RECURSIVE SumSizes(_)
SumSizes(objs) == IF objs = <<>> THEN 0 ELSE Head(objs).Size + SumSizes(Tail(objs))

\* The bucket whose collection is just over, and its entry.
LastBucket == strip(BUCKETS[idx - 1])
LastEntry == DictGet(health_status.buckets, LastBucket, [success |-> FALSE])

\* C5: the success outcome of a listing has the number of object
\* descriptors over all its pages as object count and the sum of their
\* sizes as total size, however the objects are split into pages.
C5_CountAndSizeOverPages ==
    reply = "done" =>
        /\ LastEntry.success
        /\ LastEntry.objects = Len(Flatten(seen))
        /\ LastEntry.size_bytes = SumSizes(Flatten(seen))
        /\ metrics.object_count[LastBucket] = Len(Flatten(seen))
        /\ metrics.bucket_size[LastBucket] = SumSizes(Flatten(seen))

\* A listing of two objects over two pages, the first with no Contents
\* key, is over.
C5_Witness ==
    /\ reply = "done"
    /\ Len(seen) = 2
    /\ seen[1] = NoContents
    /\ Len(Flatten(seen)) = 2
    /\ LastEntry.size_bytes = 6

\* The greatest modification time among objs, which is not empty.
MaxModified(objs) ==
    CHOOSE t \in { objs[i].LastModified : i \in 1..Len(objs) } :
        \A i \in 1..Len(objs) : objs[i].LastModified <= t

\* C6: the success outcome's latest modification is the greatest timestamp
\* among the objects seen, and is absent ("N/A", the gauge not set) exactly
\* when no object was seen.
C6_LatestModifiedIsMax ==
    reply = "done" =>
        LET objs == Flatten(seen)
        IN  IF objs = <<>>
            THEN /\ LastEntry.last_modified = NA
                 /\ LastBucket \notin DOMAIN metrics.last_modified
            ELSE /\ LastEntry.last_modified = strftime(MaxModified(objs))
                 /\ LastBucket \in DOMAIN metrics.last_modified
                 /\ metrics.last_modified[LastBucket] = MaxModified(objs)

\* C7: when the store reports that the bucket does not exist, on the first
\* page or a later one, a failure with the fixed message is recorded for
\* it, nothing propagates, and the pass is at the next configured name.
C7_NoSuchBucketIsFailure ==
    reply = "NoSuchBucket" =>
        /\ pc = "for"
        /\ exitCode = None
        /\ idx \in 2..(Len(BUCKETS) + 1)
        /\ LastEntry = [success |-> FALSE, error |-> "Bucket not found",
                        last_check |-> clock]
        /\ metrics.scrape_success[LastBucket] = 0
        /\ ~all_success

\* The store reported the bucket missing after a page of the listing, in
\* the second pass, and a name is left in the pass.
C7_Witness ==
    /\ reply = "NoSuchBucket"
    /\ Len(seen) >= 1
    /\ idx <= Len(BUCKETS)
    /\ clock = 2

\* C8: overall_healthy is never true, and idrive_exporter_healthy never 1,
\* while no bucket outcome has been recorded.
C8_UnhealthyWithoutOutcomes ==
    health_status.buckets = <<>> =>
        ~health_status.healthy /\ metrics.exporter_health = 0

\* C9: a step that leaves a pass before its end, because of an exception
\* that escapes it, goes to the loop's except clause and its 60-unit delay;
\* the process does not terminate.
C9_EscapingErrorIsCaught ==
    [][ (pc \in {"for", "listing"} /\ pc' \notin {"for", "listing", "sleep"})
            => (pc' = "fallback" /\ sleepFor' = FALLBACK_DELAY /\ exitCode' = None)
      ]_vars

\* C10: the preflight returns false exactly when list_buckets fails, a
\* configured bucket missing from the account never fails it; when it
\* returns false the process exits with status 1, no server is ever started
\* and no pass ever runs; a pass runs only with both servers started.
C10_Preflight ==
    /\ preflight # None => (preflight = Some(FALSE) <=> listResult = "error")
    /\ warnings # {} => preflight = Some(TRUE)
    /\ preflight = Some(FALSE) =>
           /\ pc = "exited" /\ exitCode = Some(1)
           /\ ~metricsUp /\ ~healthUp
           /\ clock = 0 /\ health_status.buckets = <<>>
    /\ clock > 0 => (preflight = Some(TRUE) /\ metricsUp /\ healthUp)

\* A pass runs although a configured bucket is missing from the account.
C10_Witness ==
    /\ warnings # {}
    /\ preflight = Some(TRUE)
    /\ pc = "listing"

\* C11: when no entry of BUCKETS is non-blank once stripped, the process
\* goes from the validation of its configuration to its exit with status 1
\* and nowhere else: no client, no call of the store, no pass.
C11_NoBucketsExits ==
    ConfiguredBuckets = {} =>
        /\ pc \in {"validate", "exited"}
        /\ pc = "exited" => exitCode = Some(1)
        /\ preflight = None /\ listResult = "none"
        /\ clock = 0

\* The entry of the bucket whose collection is just over has the fields of
\* a failure and no other.
LastIsFailure ==
    /\ LastBucket \in DictKeys(health_status.buckets)
    /\ DOMAIN LastEntry = {"success", "error", "last_check"}
    /\ LastEntry.success = FALSE

\* C12: when a listing has failed, with any error of the store and after
\* any number of pages, and the collector has returned, the bucket's entry
\* is a failure with the error's message and the time of this pass, and its
\* scrape-success and bucket-health gauges are both 0.
C12_FailureIsRecorded ==
    reply \in StoreErrors =>
        /\ pc = "for"
        /\ LastIsFailure
        /\ LastEntry.error \in {"Bucket not found"} \cup OtherErrors
        /\ LastEntry.error = "Bucket not found" <=> reply = "NoSuchBucket"
        /\ LastEntry.last_check = clock
        /\ LastBucket \in DOMAIN metrics.scrape_success
        /\ metrics.scrape_success[LastBucket] = 0
        /\ LastBucket \in DOMAIN metrics.bucket_health
        /\ metrics.bucket_health[LastBucket] = 0

\* A listing failed with an error other than NoSuchBucket after a page, for
\* a bucket whose listing succeeded before (its size gauge is set).
C12_Witness ==
    /\ reply \in OtherErrors
    /\ Len(seen) >= 1
    /\ LastBucket \in DOMAIN metrics.bucket_size
    /\ ~LastEntry.success

\* C13: when a listing has succeeded, the bucket's entry and its size,
\* object-count, last-modified and duration gauges are those of this
\* listing: the last-modified gauge is set only if an object was seen.
C13_SuccessSupersedes ==
    reply = "done" =>
        LET objs == Flatten(seen)
            a == AddListing(acc0, seen)
        IN  /\ LastEntry = SuccessEntry(a, clock)
            /\ metrics.bucket_size[LastBucket] = SumSizes(objs)
            /\ metrics.object_count[LastBucket] = Len(objs)
            /\ metrics.scrape_duration[LastBucket] = Len(seen)
            /\ IF objs = <<>>
               THEN LastBucket \notin DOMAIN metrics.last_modified
               ELSE metrics.last_modified[LastBucket] = MaxModified(objs)

\* Bucket b's entry was written in the pass that began last.
WrittenThisPass(b) ==
    /\ b \in DictKeys(health_status.buckets)
    /\ DictGet(health_status.buckets, b, [last_check |-> 0]).last_check = clock

\* The gauges that carry a bucket label.
BucketGauges ==
    << metrics.bucket_size, metrics.object_count, metrics.last_modified,
       metrics.scrape_duration, metrics.scrape_success, metrics.bucket_health >>

\* During a pass at position idx: no outcome under a blank name, a listing
\* only for a non-blank name, every non-blank name before idx has its
\* outcome of this pass, and no name from idx on has one unless it also
\* stands before idx.
OutcomesInOrder ==
    /\ <<>> \notin DictKeys(health_status.buckets)
    /\ <<>> \notin DOMAIN metrics.scrape_success
    /\ pc = "listing" => (idx \in 1..Len(BUCKETS) /\ strip(BUCKETS[idx]) # <<>>)
    /\ pc \in {"for", "listing"} =>
           \A i \in 1..Len(BUCKETS) :
               LET b == strip(BUCKETS[i])
               IN  b # <<>> =>
                       IF i < idx
                       THEN WrittenThisPass(b)
                       ELSE (\A j \in 1..(idx - 1) : strip(BUCKETS[j]) # b)
                                => ~WrittenThisPass(b)

\* One step: the health record's map and the labelled gauges change only in
\* the step that ends the listing of BUCKETS[idx] and moves to idx + 1, and
\* only for that name; every end of a listing leaves that name's outcome of
\* this pass; idx moves by one, or to 1 when a pass begins.
OneAtATime ==
    /\ (health_status.buckets' # health_status.buckets \/ BucketGauges' # BucketGauges)
           => /\ pc = "listing" /\ pc' = "for" /\ idx' = idx + 1
              /\ DictKeys(health_status.buckets')
                     = DictKeys(health_status.buckets) \cup {strip(BUCKETS[idx])}
              /\ \A k \in DictKeys(health_status.buckets) \ {strip(BUCKETS[idx])} :
                     DictGet(health_status.buckets', k, None)
                         = DictGet(health_status.buckets, k, None)
    /\ (pc = "listing" /\ pc' = "for")
           => /\ idx' = idx + 1
              /\ strip(BUCKETS[idx]) \in DictKeys(health_status.buckets')
              /\ DictGet(health_status.buckets', strip(BUCKETS[idx]),
                         [last_check |-> 0]).last_check = clock
    /\ idx' # idx => (idx' = idx + 1 \/ (idx' = 1 /\ clock' = clock + 1))

\* C14 (amended): within a pass the configured names are handled one at a
\* time in their order: the outcome of the i-th name is in the health record
\* and the gauges before the listing of the next begins, a blank name
\* leaves no outcome, and one outcome is recorded for each non-blank entry
\* of the list.
C14_InConfiguredOrder == []OutcomesInOrder /\ [][OneAtATime]_vars

\* In the second pass over two different names the first has its outcome
\* of this pass and the listing of the second, which has only its outcome
\* of the first pass, is in progress.
C14_Witness ==
    /\ pc = "listing"
    /\ clock = 2
    /\ idx = 2
    /\ strip(BUCKETS[1]) # strip(BUCKETS[2])
    /\ WrittenThisPass(strip(BUCKETS[1]))
    /\ strip(BUCKETS[2]) \in DictKeys(health_status.buckets)
    /\ ~WrittenThisPass(strip(BUCKETS[2]))

\* C14 as stated: the same, and one outcome per bucket per pass: a listing
\* never ends for a bucket that has an outcome of this pass already.
C14_OneOutcomePerBucket ==
    /\ []OutcomesInOrder
    /\ [][ /\ OneAtATime
           /\ (pc = "listing" /\ pc' = "for")
                  => ~WrittenThisPass(strip(BUCKETS[idx]))
         ]_vars

C16_HealthAlwaysAnswered ==
    /\ Serving => ENABLED Handler
    /\ (h.response # None /\ h.response[1].path = "/health")
           => h.response[1].complete

\* C17: whenever the main thread is not inside a listing, the buckets with
\* a scrape-success gauge and with a bucket-health gauge are the recorded
\* ones, the two gauges of a recorded bucket are equal and are 1 exactly
\* when its entry is a success; and once a pass has been completed the
\* exporter-health gauge is 1 exactly when overall health is true.
C17_GaugesAgreeWithRecord ==
    /\ pc # "listing" =>
           /\ DOMAIN metrics.scrape_success = DictKeys(health_status.buckets)
           /\ DOMAIN metrics.bucket_health = DictKeys(health_status.buckets)
           /\ \A b \in DictKeys(health_status.buckets) :
                  /\ metrics.bucket_health[b] = metrics.scrape_success[b]
                  /\ metrics.scrape_success[b] \in {0, 1}
                  /\ metrics.scrape_success[b] = 1 <=> LatestIsSuccess(b)
    /\ health_status.last_successful_scrape # None =>
           (metrics.exporter_health = 1 <=> health_status.healthy)

\* Between two listings of the second pass, after a first pass that ended
\* unhealthy, one recorded bucket is a success and the other a failure.
C17_Witness ==
    /\ pc = "for"
    /\ clock = 2
    /\ idx = 2
    /\ ~health_status.healthy
    /\ metrics.exporter_health = 0
    /\ \E b1, b2 \in DictKeys(health_status.buckets) :
           /\ LatestIsSuccess(b1) /\ metrics.bucket_health[b1] = 1
           /\ ~LatestIsSuccess(b2) /\ metrics.bucket_health[b2] = 0

====
